---- MODULE Spec2Model ----
(***************************************************************************)
(* Model of tinygrad/shape/view.py: the View value type, its factory, the  *)
(* address-expression builders evaluated at concrete indices, and the      *)
(* movement operations pad, shrink, expand, permute, stride and reshape.   *)
(* A tuple is a sequence, a (lo, hi) pair is a two-element sequence, and   *)
(* an Optional mask is a record [none, val].                               *)
(***************************************************************************)
EXTENDS Integers, Sequences, FiniteSets

\* ---------------------------------------------------------------- bounds
MaxRank == 2
MaxDim == 2
MaxPad == 1
MaxBound == 2
MaxMul == 2
MaxOps == 3

\* --------------------------------------------------------- python helpers
Min(a, b) == IF a <= b THEN a ELSE b
Max(a, b) == IF a >= b THEN a ELSE b
Abs(a) == IF a < 0 THEN 0 - a ELSE a

RECURSIVE SumSeq(_)
SumSeq(s) == IF Len(s) = 0 THEN 0 ELSE s[1] + SumSeq(Tail(s))

RECURSIVE prod(_)
prod(s) == IF Len(s) = 0 THEN 1 ELSE s[1] * prod(Tail(s))

\* zip() stops at the shortest argument
ZipLen2(a, b) == Min(Len(a), Len(b))
ZipLen3(a, b, c) == Min(Len(a), Min(Len(b), Len(c)))

\* [y for x,y in zip(shape, seq) if x != 1]
RECURSIVE NonUnit(_, _)
NonUnit(shape, seq) ==
  IF Len(shape) = 0 \/ Len(seq) = 0 THEN <<>>
  ELSE IF shape[1] # 1 THEN <<seq[1]>> \o NonUnit(Tail(shape), Tail(seq))
  ELSE NonUnit(Tail(shape), Tail(seq))

\* number of non-unit entries among the first j entries of shape
RECURSIVE CountNonUnit(_, _)
CountNonUnit(shape, j) ==
  IF j = 0 THEN 0
  ELSE CountNonUnit(shape, j - 1) + (IF shape[j] # 1 THEN 1 ELSE 0)

\* Optional[Tuple[Tuple[sint, sint], ...]]
NoneMask == [none |-> TRUE, val |-> <<>>]
SomeMask(m) == [none |-> FALSE, val |-> m]
\* truthiness of an Optional tuple: None and () are both falsy
Truthy(mask) == ~mask.none /\ Len(mask.val) > 0

\* ------------------------------------------- stride normalisation utilities
\* a run merges with dimension i on equal strides (the extent factor dropped)
mergeable_nomul(last, d, s) == last[2] = s \/ last[1] = 1
\* line 12: the run ending at dimension i-1 merges with dimension i
mergeable(last, d, s) == last[2] = d * s \/ last[1] = 1

RECURSIVE tss_loop(_, _, _, _)
tss_loop(shape, strides, i, ret) ==
  IF i > Len(shape) THEN ret
  ELSE LET last == ret[Len(ret)] IN
    IF mergeable(last, shape[i], strides[i])
      THEN tss_loop(shape, strides, i + 1,
                    [ret EXCEPT ![Len(ret)] = <<last[1] * shape[i], strides[i]>>])
    ELSE IF shape[i] = 1 THEN tss_loop(shape, strides, i + 1, ret)
    ELSE tss_loop(shape, strides, i + 1, Append(ret, <<shape[i], strides[i]>>))

to_shape_strides(shape, strides) ==
  IF Len(shape) = 0 THEN <<>>
  ELSE tss_loop(shape, strides, 2, <<<<shape[1], strides[1]>>>>)

\* the strides kept as given
filter_strides_keep(shape, strides) ==
  [i \in 1..ZipLen2(strides, shape) |-> strides[i]]
filter_strides(shape, strides) ==
  [i \in 1..ZipLen2(strides, shape) |-> IF shape[i] # 1 THEN strides[i] ELSE 0]

strides_for_shape(shape) ==
  filter_strides(shape,
    [i \in 1..Len(shape) |-> prod(SubSeq(shape, i + 1, Len(shape)))])

\* ------------------------------------------------------------ View factory
\* contiguity decided without looking at the offset
contiguous_of_nooffset(strides, shape, offset, mask) ==
  /\ mask.none
  /\ \A i \in 1..ZipLen2(strides, strides_for_shape(shape)) :
       strides[i] = strides_for_shape(shape)[i]
\* line 44
contiguous_of(strides, shape, offset, mask) ==
  /\ offset = 0
  /\ mask.none
  /\ \A i \in 1..ZipLen2(strides, strides_for_shape(shape)) :
       strides[i] = strides_for_shape(shape)[i]

\* strides = <<>> stands for both None and (): `if strides` is false for either
create(shape, strides, offset, mask) ==
  LET st == IF Len(strides) > 0 THEN filter_strides(shape, strides)
            ELSE strides_for_shape(shape)
  IN [shape |-> shape, strides |-> st, offset |-> offset, mask |-> mask,
      contiguous |-> contiguous_of(st, shape, offset, mask)]

\* ------------------------------------------------- address-expression builder
\* value of the conjunction built by expr_node_mask at the concrete index idx
RECURSIVE mask_loop(_, _, _, _, _)
mask_loop(shape, mask, i, acc, idx) ==
  IF i = 0 THEN TRUE
  ELSE LET ns == shape[i]
           x == mask[i][1]
           y == mask[i][2]
           base == (idx \div acc) % ns
       IN /\ (x # 0 \/ y # ns) => (base >= x /\ base < y)
          /\ mask_loop(shape, mask, i - 1, acc * ns, idx)

expr_node_mask(self, idx) ==
  IF self.mask.none THEN TRUE
  ELSE mask_loop(self.shape, self.mask.val,
                 ZipLen2(self.shape, self.mask.val), 1, idx)

RECURSIVE node_loop(_, _, _, _)
node_loop(runs, i, acc, idx) ==
  IF i = 0 THEN 0
  ELSE ((idx \div acc) % runs[i][1]) * runs[i][2]
       + node_loop(runs, i - 1, acc * runs[i][1], idx)

expr_node(self, idx) ==
  LET runs == to_shape_strides(self.shape, self.strides)
  IN self.offset + node_loop(runs, Len(runs), 1, idx)

expr_idxs(self, idxs) ==
  self.offset +
  SumSeq([i \in 1..ZipLen3(idxs, self.shape, self.strides) |->
            IF self.shape[i] # 1 /\ self.strides[i] # 0
              THEN idxs[i] * self.strides[i] ELSE 0])

\* ----------------------------------------------------------- operation results
Returned(view) == [kind |-> "view", view |-> view]
AssertionError(self) == [kind |-> "assert", view |-> self]
ReturnedNone(self) == [kind |-> "none", view |-> self]


\* ------------------------------------------------------------- movement ops
\* line 79: the old mask translated into the new box
move_mask(m, a) == <<Max(m[1] - a[1], 0), Min(m[2] - a[1], a[2] - a[1])>>

\* the new mask replacing the old one
merge_mask_replace(m1, m2) == m2
\* line 81: intersection of two per-dimension masks
merge_mask(m1, m2) == <<Max(m1[1], m2[1]), Min(m1[2], m2[2])>>

\* the offset left where it was
resize_offset_zero(strides, arg) == 0
\* line 76
resize_offset(strides, arg) ==
  SumSeq([i \in 1..ZipLen2(strides, arg) |-> strides[i] * arg[i][1]])

unsafe_resize(self, arg, mask) ==
  LET offset == resize_offset(self.strides, arg)
      nmask == [i \in 1..ZipLen2(self.mask.val, arg) |->
                  move_mask(self.mask.val[i], arg[i])]
      newmask ==
        IF Truthy(self.mask)
          THEN IF ~mask.none
                 THEN SomeMask([i \in 1..ZipLen2(nmask, mask.val) |->
                                  merge_mask(nmask[i], mask.val[i])])
                 ELSE SomeMask(nmask)
          ELSE mask
  IN create([i \in 1..Len(arg) |-> arg[i][2] - arg[i][1]],
            self.strides, self.offset + offset, newmask)

pad(self, arg) ==
  IF ~((\A i \in 1..Len(arg) : arg[i][1] >= 0 /\ arg[i][2] >= 0)
       /\ Len(arg) = Len(self.shape))
    THEN AssertionError(self)
  ELSE IF \E i \in 1..Len(arg) : arg[i][1] # 0 \/ arg[i][2] # 0
    THEN LET zvarg == [i \in 1..ZipLen2(self.shape, arg) |->
                         <<0 - arg[i][1], self.shape[i] + arg[i][2]>>]
             mask == [i \in 1..ZipLen2(self.shape, arg) |->
                        <<arg[i][1], self.shape[i] + arg[i][1]>>]
         IN Returned(unsafe_resize(self, zvarg, SomeMask(mask)))
  ELSE Returned(self)

shrink(self, arg) ==
  IF ~((\A i \in 1..ZipLen2(self.shape, arg) :
          arg[i][1] >= 0 /\ arg[i][2] <= self.shape[i])
       /\ Len(arg) = Len(self.shape))
    THEN AssertionError(self)
  ELSE Returned(unsafe_resize(self, arg, NoneMask))

\* line 103: the mask entry of one dimension after expand
expand_mask(m, s, ns) ==
  IF s # ns THEN (IF m # <<0, 1>> THEN <<0, 0>> ELSE <<0, ns>>) ELSE m

expand(self, new_shape) ==
  IF Len(new_shape) # Len(self.shape) THEN AssertionError(self)
  ELSE IF ~(\A i \in 1..ZipLen3(self.shape, new_shape, self.strides) :
              self.shape[i] = new_shape[i]
              \/ (self.shape[i] = 1 /\ self.strides[i] = 0))
    THEN AssertionError(self)
  ELSE LET mask == IF Truthy(self.mask)
                     THEN SomeMask([i \in 1..ZipLen3(self.mask.val, self.shape, new_shape) |->
                            expand_mask(self.mask.val[i], self.shape[i], new_shape[i])])
                     ELSE NoneMask
       IN Returned(create(new_shape, self.strides, self.offset, mask))

\* axis holds python's 0-based positions
permute(self, axis) ==
  IF ~(\A i \in 1..Len(axis) : axis[i] >= 0 /\ axis[i] < Len(self.shape))
    THEN AssertionError(self)
  ELSE IF ~(Cardinality({axis[i] : i \in 1..Len(axis)}) = Len(axis)
            /\ Len(axis) = Len(self.shape))
    THEN AssertionError(self)
  ELSE Returned(create([i \in 1..Len(axis) |-> self.shape[axis[i] + 1]],
                       [i \in 1..Len(axis) |-> self.strides[axis[i] + 1]],
                       self.offset,
                       IF ~self.mask.none
                         THEN SomeMask([i \in 1..Len(axis) |-> self.mask.val[axis[i] + 1]])
                         ELSE NoneMask))

\* (a + (abs(m)-1)) // abs(m)
cdiv(a, m) == (a + (Abs(m) - 1)) \div Abs(m)

\* line 118
stride_offset(shape, strides, mul) ==
  SumSeq([i \in 1..ZipLen3(shape, strides, mul) |->
            IF mul[i] < 0 THEN (shape[i] - 1) * strides[i] ELSE 0])

\* the bounds scaled without the swap of a negative multiplier
stride_mask_noswap(m, s, mu) == <<cdiv(m[1], mu), cdiv(m[2], mu)>>
\* line 119: the mask entry of one dimension after stride
stride_mask(m, s, mu) ==
  <<cdiv(IF mu > 0 THEN m[1] ELSE s - m[2], mu),
    cdiv(IF mu > 0 THEN m[2] ELSE s - m[1], mu)>>

stride(self, mul) ==
  IF ~(\A i \in 1..Len(mul) : mul[i] # 0) THEN AssertionError(self)
  ELSE LET strides == [i \in 1..ZipLen2(self.strides, mul) |-> self.strides[i] * mul[i]]
           new_shape == [i \in 1..ZipLen2(self.shape, mul) |-> cdiv(self.shape[i], mul[i])]
           offset == stride_offset(self.shape, self.strides, mul)
           mask == IF ~self.mask.none
                     THEN SomeMask([i \in 1..ZipLen3(self.mask.val, self.shape, mul) |->
                            stride_mask(self.mask.val[i], self.shape[i], mul[i])])
                     ELSE NoneMask
       IN Returned(create(new_shape, strides, self.offset + offset, mask))

\* lines 137-138: strides of the view with unit axes inserted or removed
unit_strides(self, new_shape) ==
  LET new_strides == NonUnit(self.shape, self.strides)
  IN [j \in 1..Len(new_shape) |->
        IF new_shape[j] = 1 THEN 0 ELSE new_strides[CountNonUnit(new_shape, j)]]

\* lines 139-147
unit_mask(self, new_shape) ==
  IF Truthy(self.mask)
    THEN IF \E i \in 1..ZipLen2(self.shape, self.mask.val) :
              self.shape[i] = 1 /\ self.mask.val[i] # <<0, 1>>
           THEN SomeMask([j \in 1..Len(new_shape) |-> <<0, 0>>])
           ELSE LET new_mask == NonUnit(self.shape, self.mask.val)
                IN SomeMask([j \in 1..Len(new_shape) |->
                     IF new_shape[j] = 1 THEN <<0, 1>>
                     ELSE new_mask[CountNonUnit(new_shape, j)]])
    ELSE NoneMask

reshape(self, new_shape) ==
  IF self.shape = new_shape THEN Returned(self)
  ELSE IF ~(\A i \in 1..Len(new_shape) : new_shape[i] > 0) THEN AssertionError(self)
  ELSE IF prod(self.shape) # prod(new_shape) THEN AssertionError(self)
  ELSE IF self.contiguous THEN Returned(create(new_shape, <<>>, 0, NoneMask))
  ELSE IF NonUnit(self.shape, self.shape) = NonUnit(new_shape, new_shape)
    THEN Returned(create(new_shape, unit_strides(self, new_shape), self.offset,
                         unit_mask(self, new_shape)))
  ELSE ReturnedNone(self)

\* ------------------------------------------------------------------- inputs
SeqsUpTo(S) == UNION {[1..n -> S] : n \in 0..MaxRank}
Pairs(S) == {<<a, b>> : a \in S, b \in S}

InitShapes == SeqsUpTo(1..MaxDim)
PadArgs == SeqsUpTo(Pairs(0..MaxPad))
ShrinkArgs == SeqsUpTo(Pairs(0..MaxBound))
ExpandArgs == SeqsUpTo(0..MaxBound)
PermuteArgs == SeqsUpTo(0..(MaxRank - 1))
StrideArgs == SeqsUpTo((0 - MaxMul)..MaxMul)
ReshapeArgs == SeqsUpTo(0..(MaxDim * MaxDim))

Positive(shape) == \A i \in 1..Len(shape) : shape[i] > 0

\* -------------------------------------------------------------------- state
\* v: the view the caller holds; prev, op, arg, res: the last call (the view it
\* was made on, the operation, its argument, how it ended); nops: calls so far;
\* allpos: every view held so far had an all-positive shape
VARIABLES v, prev, op, arg, res, nops, allpos
vars == <<v, prev, op, arg, res, nops, allpos>>

Init ==
  \E shape \in InitShapes :
    /\ v = create(shape, <<>>, 0, NoneMask)
    /\ prev = create(shape, <<>>, 0, NoneMask)
    /\ op = "create"
    /\ arg = shape
    /\ res = "view"
    /\ nops = 0
    /\ allpos = TRUE

\* A failed assertion is a contract violation and ends the run.
CanCall == nops < MaxOps /\ res # "assert"

\* the outcome r of one call on the held view; a None result leaves the caller
\* with the view it had
Outcome(name, a, r) ==
  /\ prev' = v
  /\ op' = name
  /\ arg' = a
  /\ res' = r.kind
  /\ v' = r.view
  /\ nops' = nops + 1
  /\ allpos' = (allpos /\ Positive(r.view.shape))

Pad == \E a \in PadArgs : CanCall /\ Outcome("pad", a, pad(v, a))
Shrink == \E a \in ShrinkArgs : CanCall /\ Outcome("shrink", a, shrink(v, a))
Expand == \E a \in ExpandArgs : CanCall /\ Outcome("expand", a, expand(v, a))
Permute == \E a \in PermuteArgs : CanCall /\ Outcome("permute", a, permute(v, a))
Stride == \E a \in StrideArgs : CanCall /\ Outcome("stride", a, stride(v, a))
Reshape == \E a \in ReshapeArgs : CanCall /\ Outcome("reshape", a, reshape(v, a))

Next == Pad \/ Shrink \/ Expand \/ Permute \/ Stride \/ Reshape

Spec == Init /\ [][Next]_vars


\* ------------------------------------------------- vocabulary of the claims
\* every index tuple (i_1..i_n) with 0 <= i_k < shape[k]
RECURSIVE Tuples(_)
Tuples(shape) ==
  IF Len(shape) = 0 THEN {<<>>}
  ELSE {<<i>> \o t : i \in 0..(shape[1] - 1), t \in Tuples(Tail(shape))}

\* the flattened row-major index of a tuple: sum(i_k * prod(shape[k+1:]))
Flat(shape, t) ==
  SumSeq([k \in 1..Len(shape) |-> t[k] * prod(SubSeq(shape, k + 1, Len(shape)))])

\* offset + sum(i_k * strides[k])
Addr(view, t) ==
  view.offset + SumSeq([k \in 1..Len(view.shape) |-> t[k] * view.strides[k]])

\* the mask-derived validity predicate at an index tuple
Valid(view, t) == expr_node_mask(view, Flat(view.shape, t))

\* ceil(a / b) for b > 0
Ceil(a, b) == 0 - ((0 - a) \div b)

\* C1: on every reachable view with an all-positive shape, at every index tuple,
\* expr_idxs equals offset + sum(i_k * strides[k]) and expr_node at the
\* flattened row-major index gives the same value.
C1_AddressConsistency ==
  Positive(v.shape) =>
    \A t \in Tuples(v.shape) :
      /\ expr_idxs(v, t) = Addr(v, t)
      /\ expr_node(v, Flat(v.shape, t)) = Addr(v, t)

\* a non-contiguous two-dimensional view whose two non-unit axes were merged
\* into one run
C1_Witness ==
  /\ res = "view" /\ op # "create"
  /\ Len(v.shape) = 2 /\ v.shape[1] > 1 /\ v.shape[2] > 1
  /\ ~v.contiguous
  /\ v.strides[2] # 0
  /\ Len(to_shape_strides(v.shape, v.strides)) = 1

\* C2: in every reachable view strides and shape have the same length, a mask
\* is absent or of that length, and every extent-1 dimension has stride 0.
C2_Canonical ==
  /\ Len(v.strides) = Len(v.shape)
  /\ v.mask.none \/ Len(v.mask.val) = Len(v.shape)
  /\ \A i \in 1..Len(v.shape) : v.shape[i] = 1 => v.strides[i] = 0

\* a shrink took a dimension with a nonzero stride down to extent 1
C2_Witness ==
  /\ op = "shrink" /\ res = "view"
  /\ \E i \in 1..Len(v.shape) : prev.strides[i] # 0 /\ v.shape[i] = 1

\* C3: the stored contiguous field is true exactly when offset is 0, the mask
\* is absent and the strides are the row-major default strides of the shape.
C3_Contiguous ==
  v.contiguous <=>
    (v.offset = 0 /\ v.mask.none /\ v.strides = strides_for_shape(v.shape))

\* a view that is not contiguous only because of its offset
C3_Witness ==
  /\ res = "view" /\ op # "create"
  /\ Len(v.shape) > 0
  /\ v.offset # 0 /\ v.mask.none /\ v.strides = strides_for_shape(v.shape)
  /\ ~v.contiguous


\* shrink bounds with 0 <= b_k < e_k <= shape[k] in every dimension
ProperBounds(u, b) ==
  /\ Len(b) = Len(u.shape)
  /\ \A k \in 1..Len(b) : 0 <= b[k][1] /\ b[k][1] < b[k][2] /\ b[k][2] <= u.shape[k]

\* the pad bounds that undo shrink bounds b on u
InversePad(u, b) == [k \in 1..Len(b) |-> <<b[k][1], u.shape[k] - b[k][2]>>]

InBox(b, t) == \A k \in 1..Len(b) : b[k][1] <= t[k] /\ t[k] < b[k][2]

ShrinkPadInverse(u, b, w) ==
  /\ w.shape = u.shape
  /\ \A t \in Tuples(w.shape) :
       /\ Valid(w, t) <=> InBox(b, t)
       /\ InBox(b, t) => expr_idxs(w, t) = expr_idxs(u, t)

\* C4: when an unmasked view u with a positive shape was shrunk with proper
\* bounds b and the result is then padded with the inverse bounds, the padded
\* view has u's shape, is valid exactly inside the box b, and addresses every
\* valid tuple as u does.
C4_ShrinkPadInverse ==
  [][(/\ op = "shrink" /\ res = "view"
      /\ prev.mask.none /\ Positive(prev.shape)
      /\ ProperBounds(prev, arg)
      /\ op' = "pad"
      /\ arg' = InversePad(prev, arg))
     => (res' = "view" /\ ShrinkPadInverse(prev, arg, v'))]_vars

\* the held view is create(shape).shrink(b).pad(inverse of b), where b took a
\* dimension with a nonzero stride down to extent 1
C4_Witness ==
  /\ op = "pad" /\ res = "view"
  /\ \E shape \in InitShapes, b \in ShrinkArgs :
       LET u == create(shape, <<>>, 0, NoneMask) IN
         /\ ProperBounds(u, b)
         /\ prev = shrink(u, b).view
         /\ arg = InversePad(u, b)
         /\ \E k \in 1..Len(b) : b[k][2] - b[k][1] = 1 /\ u.strides[k] # 0
                                 /\ b[k][1] > 0
         /\ ShrinkPadInverse(u, b, v)

\* C5: every mask entry (lo, hi) of a reachable view satisfies
\* 0 <= lo <= hi <= shape[i]; stated here for the runs in which every view
\* had an all-positive shape.
C5_MaskWellFormed ==
  (allpos /\ ~v.mask.none) =>
    \A i \in 1..Len(v.mask.val) :
      /\ 0 <= v.mask.val[i][1]
      /\ v.mask.val[i][1] <= v.mask.val[i][2]
      /\ v.mask.val[i][2] <= v.shape[i]

MovementOps == {"pad", "shrink", "expand", "permute", "stride", "reshape"}

\* C6: a movement operation that returns a view on a view with an all-positive
\* shape returns a view with an all-positive shape.
C6_ShapePositive ==
  (op \in MovementOps /\ res = "view" /\ Positive(prev.shape)) => Positive(v.shape)

\* C7: pad, shrink, expand, permute and stride fail with an assertion error
\* whenever the length of their argument differs from the rank of the view.
C7_RankMismatchRejected ==
  (op \in {"pad", "shrink", "expand", "permute", "stride"}
   /\ Len(arg) # Len(prev.shape)) => res = "assert"

PadSemantics(u, a, w) ==
  IF \A k \in 1..Len(a) : a[k] = <<0, 0>> THEN w = u
  ELSE
    /\ w.shape = [k \in 1..Len(a) |-> u.shape[k] + a[k][1] + a[k][2]]
    /\ \A t \in Tuples(w.shape) :
         LET o == [k \in 1..Len(a) |-> t[k] - a[k][1]]
             inside == \A k \in 1..Len(a) : 0 <= o[k] /\ o[k] < u.shape[k]
         IN /\ Valid(w, t) <=> (inside /\ Valid(u, o))
            /\ Valid(w, t) => expr_idxs(w, t) = expr_idxs(u, o)

\* C8: a pad that returns a view adds its bounds to the shape, is valid at a
\* tuple exactly when the tuple lies in the pad box and its translation is
\* valid in the padded view, and addresses every valid tuple as the padded
\* view addresses the translated tuple; an all-zero pad returns the view.
C8_PadSemantics ==
  (op = "pad" /\ res = "view") => PadSemantics(prev, arg, v)

\* a masked view was padded, and some tuple inside the new pad box is invalid
\* because the old mask rules it out while another tuple is valid
C8_Witness ==
  /\ op = "pad" /\ res = "view"
  /\ Truthy(prev.mask) /\ Positive(prev.shape)
  /\ \E k \in 1..Len(arg) : arg[k] # <<0, 0>>
  /\ \E t \in Tuples(v.shape) : Valid(v, t)
  /\ \E t \in Tuples(v.shape) :
       /\ \A k \in 1..Len(arg) :
            arg[k][1] <= t[k] /\ t[k] < arg[k][1] + prev.shape[k]
       /\ ~Valid(v, t)

StrideSemantics(u, m, w) ==
  /\ w.shape = [k \in 1..Len(m) |-> Ceil(u.shape[k], Abs(m[k]))]
  /\ \A j \in Tuples(w.shape) :
       LET o == [k \in 1..Len(m) |->
                   IF m[k] > 0 THEN m[k] * j[k]
                   ELSE u.shape[k] - 1 - Abs(m[k]) * j[k]]
       IN /\ expr_idxs(w, j) = expr_idxs(u, o)
          /\ Valid(w, j) <=> Valid(u, o)

\* C9: a stride with one nonzero multiplier per dimension gives extents
\* ceil(s_k / |m_k|), and at every tuple j the new view has the address and
\* the validity of the old view at the old index o.
C9_StrideSemantics ==
  (op = "stride" /\ res = "view" /\ Len(arg) = Len(prev.shape))
    => StrideSemantics(prev, arg, v)

\* a masked view was strided by -2 along a dimension of extent at least 3, and
\* the result has a valid and an invalid tuple
C9_Witness ==
  /\ op = "stride" /\ res = "view" /\ Len(arg) = Len(prev.shape)
  /\ Truthy(prev.mask) /\ Positive(prev.shape)
  /\ \E k \in 1..Len(arg) : arg[k] = 0 - 2 /\ prev.shape[k] >= 3
  /\ \E t \in Tuples(v.shape) : Valid(v, t)
  /\ \E t \in Tuples(v.shape) : ~Valid(v, t)

\* C10: a reshape of a view with an all-positive shape to a positive shape of
\* the same size raises no error; when it returns a view, that view has the
\* same address and the same validity at every flattened index; it returns
\* None only for a non-contiguous view whose non-unit dimensions differ.
C10_ReshapePreserves ==
  (op = "reshape" /\ Positive(prev.shape) /\ Positive(arg)
   /\ prod(arg) = prod(prev.shape)) =>
    /\ res # "assert"
    /\ res = "view" =>
         \A idx \in 0..(prod(prev.shape) - 1) :
           /\ expr_node(v, idx) = expr_node(prev, idx)
           /\ expr_node_mask(v, idx) <=> expr_node_mask(prev, idx)
    /\ res = "none" <=>
         /\ ~prev.contiguous
         /\ NonUnit(prev.shape, prev.shape) # NonUnit(arg, arg)

====
